---------------------------- MODULE Spec2Model ----------------------------
(***************************************************************************)
(* Model of the JSON extraction / repair pipeline of app1.py:              *)
(*   extract_json -> validate_and_fix_json -> fallback, as sequenced in    *)
(*   generate_json.                                                        *)
(*                                                                         *)
(* A text is a sequence of atoms.  An atom is one character ("{", "}",     *)
(* "_", a digit ...) or a word that is never split ("laser", "json").      *)
(* A JSON value is a one-field record whose field name is its Python type: *)
(*   [null |-> TRUE]  [bool |-> b]  [int |-> n]  [flt |-> thousandths]     *)
(*   [str |-> atoms]  [list |-> sequence]  [obj |-> function on keys]      *)
(* where a key is the atom sequence of a str.                              *)
(***************************************************************************)
EXTENDS Integers, Sequences, FiniteSets, Bags, TLC

VARIABLES
    text,           \* response_content: the text handed to extract_json
    json_output,    \* what extract_json returned (as decoded, before repair)
    json_data,      \* the value validate_and_fix_json repairs in place
    issues,         \* validate_and_fix_json's change log
    type_counters,  \* validate_and_fix_json's per-type counters
    idx,            \* position of the for loop over the components
    pc,             \* the statement about to run
    exc,            \* the exception in flight ("" when none)
    result,         \* what generate_json returned: [json, issues, how]
    round,          \* "first" run, or the re-run on the first run's document
    first           \* the first run's result (kept for the re-run)

vars == <<text, json_output, json_data, issues, type_counters, idx, pc, exc,
          result, round, first>>

-----------------------------------------------------------------------------
(* JSON values as Python holds them *)

None == [null |-> TRUE]
JBool(b) == [bool |-> b]
JInt(n) == [int |-> n]
JFlt(m) == [flt |-> m]
JStr(s) == [str |-> s]
JList(s) == [list |-> s]
JDict(f) == [obj |-> f]

IsNone(v) == DOMAIN v = {"null"}
IsBool(v) == DOMAIN v = {"bool"}
IsInt(v) == DOMAIN v = {"int"}
IsFlt(v) == DOMAIN v = {"flt"}
IsStr(v) == DOMAIN v = {"str"}
IsList(v) == DOMAIN v = {"list"}
IsDict(v) == DOMAIN v = {"obj"}

\* a float is held in thousandths: JFlt(-2) is -0.002, JFlt(90000) is 90.0
Milli == 10 * 100

Put(f, k, v) == (k :> v) @@ f
Del(f, k) == [x \in DOMAIN f \ {k} |-> f[x]]

\* the default document (app1.py repeats this literal three times)
DefaultJson ==
    JDict(Put(Put(<<>>, <<"components">>, JList(<<>>)),
             <<"laser">>,
             JDict(Put(Put(<<>>, <<"id">>, JStr(<<"laser">>)),
                      <<"params">>,
                      JDict(Put(Put(Put(<<>>, <<"P">>, JFlt(1 * Milli)),
                                   <<"wavelength_nm">>, JInt(650)),
                               <<"maxtem">>, JInt(1)))))))

-----------------------------------------------------------------------------
(* Python operators on those values *)

\* isinstance(v, int): bool is a subclass of int
IsInstanceInt(v) == IsInt(v) \/ IsBool(v)
\* isinstance(v, (int, float))
IsInstanceIntFloat(v) == IsInt(v) \/ IsBool(v) \/ IsFlt(v)

\* the number a bool, int or float stands for, in thousandths
Thousandths(v) ==
    IF IsInt(v) THEN v.int * Milli
    ELSE IF IsFlt(v) THEN v.flt
    ELSE IF IsBool(v) THEN (IF v.bool THEN Milli ELSE 0)
    ELSE 0

\* Python's a == b for two values: numbers compare by value across
\* bool / int / float, everything else structurally
PyEq(a, b) ==
    IF IsInstanceIntFloat(a) /\ IsInstanceIntFloat(b)
    THEN Thousandths(a) = Thousandths(b)
    ELSE a = b

Digits == <<"0", "1", "2", "3", "4", "5", "6", "7", "8", "9">>
RECURSIVE IntToStr(_)
\* str(n) for n >= 0
IntToStr(n) ==
    IF n < 10 THEN <<Digits[n + 1]>>
    ELSE IntToStr(n \div 10) \o <<Digits[(n % 10) + 1]>>

\* the fraction digits of repr(float): trailing zeros dropped, one kept
FracToStr(r) ==
    IF r % 100 = 0 THEN <<Digits[(r \div 100) + 1]>>
    ELSE IF r % 10 = 0
         THEN <<Digits[(r \div 100) + 1], Digits[((r \div 10) % 10) + 1]>>
         ELSE <<Digits[(r \div 100) + 1], Digits[((r \div 10) % 10) + 1],
                Digits[(r % 10) + 1]>>

Abs(n) == IF n < 0 THEN 0 - n ELSE n

\* str(v) / repr(v) of a number
NumToStr(v) ==
    IF IsInt(v)
    THEN (IF v.int < 0 THEN <<"-">> ELSE <<>>) \o IntToStr(Abs(v.int))
    ELSE (IF v.flt < 0 THEN <<"-">> ELSE <<>>)
         \o IntToStr(Abs(v.flt) \div Milli) \o <<".">>
         \o FracToStr(Abs(v.flt) % Milli)

\* f"{v}" for the values that can be a dict key
PyStr(v) ==
    IF IsStr(v) THEN v.str
    ELSE IF IsNone(v) THEN <<"None">>
    ELSE IF IsBool(v) THEN (IF v.bool THEN <<"True">> ELSE <<"False">>)
    ELSE NumToStr(v)

\* whether sequence k occurs in sequence s as a contiguous run
IsSubstring(k, s) ==
    \E i \in 0..(Len(s) - Len(k)) :
        \A j \in 1..Len(k) : s[i + j] = k[j]

\* whether key in v is defined (else TypeError: not iterable)
SupportsIn(v) == IsDict(v) \/ IsList(v) \/ IsStr(v)

\* key in v, for a str key
Contains(v, key) ==
    IF IsDict(v) THEN key \in DOMAIN v.obj
    ELSE IF IsList(v) THEN \E i \in 1..Len(v.list) : v.list[i] = JStr(key)
    ELSE IF IsStr(v) THEN IsSubstring(key, v.str)
    ELSE FALSE

\* v.get(key, default) of a dict
Get(v, key, default) ==
    IF key \in DOMAIN v.obj THEN v.obj[key] ELSE default

\* whether v can be a dict key (lists and dicts are unhashable)
Hashable(v) == ~ (IsList(v) \/ IsDict(v))

\* the key a hashable value is filed under: 1, 1.0 and True are one key
HashKey(v) ==
    IF IsBool(v) THEN JInt(IF v.bool THEN 1 ELSE 0)
    ELSE IF IsFlt(v) /\ v.flt % Milli = 0 THEN JInt(v.flt \div Milli)
    ELSE v

-----------------------------------------------------------------------------
(* Texts: json.dumps and json.loads *)

Quote == "\""
\* the atom of one backtick character
Backtick == "BACKTICK"
\* the JSON escape of a backtick, one atom of a text
EscBacktick == "\\u0060"
Whitespace == {" ", "\n"}

RECURSIVE SetToSeq(_)
\* the members of a finite set, in a fixed order
SetToSeq(S) ==
    IF S = {} THEN <<>>
    ELSE LET x == CHOOSE y \in S : TRUE IN <<x>> \o SetToSeq(S \ {x})

\* a dict's keys in iteration order
Keys(v) == SetToSeq(DOMAIN v.obj)

RECURSIVE Join(_, _)
\* sep.join(parts)
Join(parts, sep) ==
    IF Len(parts) = 0 THEN <<>>
    ELSE IF Len(parts) = 1 THEN parts[1]
    ELSE parts[1] \o sep \o Join(Tail(parts), sep)

RECURSIVE Dumps(_)
\* json.dumps(v) with the default separators: str content is written raw
\* (a backtick is not escaped)
Dumps(v) ==
    IF IsNone(v) THEN <<"null">>
    ELSE IF IsBool(v) THEN (IF v.bool THEN <<"true">> ELSE <<"false">>)
    ELSE IF IsInt(v) \/ IsFlt(v) THEN NumToStr(v)
    ELSE IF IsStr(v) THEN <<Quote>> \o v.str \o <<Quote>>
    ELSE IF IsList(v)
    THEN <<"[">>
         \o Join([i \in 1..Len(v.list) |-> Dumps(v.list[i])], <<",", " ">>)
         \o <<"]">>
    ELSE LET ks == Keys(v) IN
         <<"{">>
         \o Join([i \in 1..Len(ks) |->
                    <<Quote>> \o ks[i] \o <<Quote, ":", " ">>
                    \o Dumps(v.obj[ks[i]])],
                 <<",", " ">>)
         \o <<"}">>

\* a failed decode (json.JSONDecodeError)
DecodeError == [ok |-> FALSE]
Decoded(v, n) == [ok |-> TRUE, val |-> v, next |-> n]

RECURSIVE SkipWs(_, _)
\* the first position at or after i that holds no whitespace
SkipWs(t, i) ==
    IF i <= Len(t) /\ t[i] \in Whitespace THEN SkipWs(t, i + 1) ELSE i

DigitAtoms == {Digits[i] : i \in 1..10}
DigitVal(d) == (CHOOSE i \in 1..10 : Digits[i] = d) - 1

RECURSIVE ScanDigits(_, _, _, _)
\* the run of digits from position i on: [val, n (digits read), next]
ScanDigits(t, i, acc, n) ==
    IF i <= Len(t) /\ t[i] \in DigitAtoms
    THEN ScanDigits(t, i + 1, acc * 10 + DigitVal(t[i]), n + 1)
    ELSE [val |-> acc, n |-> n, next |-> i]

\* a JSON number at position i: -?digits(.digits)?, no leading zero.  The
\* model holds floats in thousandths, so the texts it is given carry at
\* most three fraction digits (and no exponent).
ScanNumber(t, i) ==
    LET neg == t[i] = "-"
        whole == ScanDigits(t, IF neg THEN i + 1 ELSE i, 0, 0)
        sign == IF neg THEN -1 ELSE 1
        lead == IF neg THEN i + 1 ELSE i
    IN  IF whole.n = 0 \/ (whole.n > 1 /\ t[lead] = "0") THEN DecodeError
        ELSE IF whole.next <= Len(t) /\ t[whole.next] = "."
        THEN LET frac == ScanDigits(t, whole.next + 1, 0, 0)
                 scale == IF frac.n = 1 THEN 100
                          ELSE IF frac.n = 2 THEN 10 ELSE 1
             IN  IF frac.n = 0 \/ frac.n > 3 THEN DecodeError
                 ELSE Decoded(JFlt(sign * (whole.val * Milli
                                           + frac.val * scale)),
                              frac.next)
        ELSE Decoded(JInt(sign * whole.val), whole.next)

RECURSIVE ScanString(_, _, _)
\* the str whose opening quote precedes position i: an escaped backtick
\* decodes to a backtick, a raw line break is a control character
ScanString(t, i, acc) ==
    IF i > Len(t) \/ t[i] = "\n" THEN DecodeError
    ELSE IF t[i] = Quote THEN Decoded(JStr(acc), i + 1)
    ELSE IF t[i] = EscBacktick THEN ScanString(t, i + 1, Append(acc, Backtick))
    ELSE ScanString(t, i + 1, Append(acc, t[i]))

RECURSIVE ScanValue(_, _)
RECURSIVE ScanElements(_, _, _)
RECURSIVE ScanMembers(_, _, _)

\* the elements of a list, position i after "[" or ","
ScanElements(t, i, acc) ==
    LET r == ScanValue(t, SkipWs(t, i)) IN
    IF ~ r.ok THEN DecodeError
    ELSE LET j == SkipWs(t, r.next) IN
         IF j > Len(t) THEN DecodeError
         ELSE IF t[j] = "," THEN ScanElements(t, j + 1, Append(acc, r.val))
         ELSE IF t[j] = "]" THEN Decoded(JList(Append(acc, r.val)), j + 1)
         ELSE DecodeError

\* the members of a dict, position i after "{" or ",": a repeated key keeps
\* the last value
ScanMembers(t, i, acc) ==
    LET k == SkipWs(t, i) IN
    IF k > Len(t) \/ t[k] # Quote THEN DecodeError
    ELSE LET key == ScanString(t, k + 1, <<>>) IN
         IF ~ key.ok THEN DecodeError
         ELSE LET c == SkipWs(t, key.next) IN
              IF c > Len(t) \/ t[c] # ":" THEN DecodeError
              ELSE LET r == ScanValue(t, SkipWs(t, c + 1)) IN
                   IF ~ r.ok THEN DecodeError
                   ELSE LET j == SkipWs(t, r.next)
                            got == Put(acc, key.val.str, r.val)
                        IN  IF j > Len(t) THEN DecodeError
                            ELSE IF t[j] = "," THEN ScanMembers(t, j + 1, got)
                            ELSE IF t[j] = "}" THEN Decoded(JDict(got), j + 1)
                            ELSE DecodeError

\* the JSON value that starts at position i
ScanValue(t, i) ==
    IF i > Len(t) THEN DecodeError
    ELSE IF t[i] = "{"
    THEN LET j == SkipWs(t, i + 1) IN
         IF j <= Len(t) /\ t[j] = "}" THEN Decoded(JDict(<<>>), j + 1)
         ELSE ScanMembers(t, i + 1, <<>>)
    ELSE IF t[i] = "["
    THEN LET j == SkipWs(t, i + 1) IN
         IF j <= Len(t) /\ t[j] = "]" THEN Decoded(JList(<<>>), j + 1)
         ELSE ScanElements(t, i + 1, <<>>)
    ELSE IF t[i] = Quote THEN ScanString(t, i + 1, <<>>)
    ELSE IF t[i] = "null" THEN Decoded(None, i + 1)
    ELSE IF t[i] = "true" THEN Decoded(JBool(TRUE), i + 1)
    ELSE IF t[i] = "false" THEN Decoded(JBool(FALSE), i + 1)
    ELSE IF t[i] = "-" \/ t[i] \in DigitAtoms THEN ScanNumber(t, i)
    ELSE DecodeError

\* json.loads(t): one value, whitespace around it, nothing else
Loads(t) ==
    LET r == ScanValue(t, SkipWs(t, 1)) IN
    IF r.ok /\ SkipWs(t, r.next) > Len(t) THEN r ELSE DecodeError

-----------------------------------------------------------------------------
(* extract_json *)

\* whether the fence pattern (three backticks, then json when lang) matches
\* at position i
FenceAt(t, i, lang) ==
    /\ i + (IF lang THEN 4 ELSE 3) - 1 <= Len(t)
    /\ \A j \in 0..2 : t[i + j] = Backtick
    /\ lang => t[i + 3] = "json"

RECURSIVE RemoveFences(_, _, _)
\* re.sub of the fence pattern followed by json and \s* (lang = TRUE), or
\* of the fence pattern followed by \s*, by the empty string, from position
\* i on: the text up to the leftmost match is kept, the match and the
\* whitespace after it are dropped, and the scan goes on behind them
RemoveFences(t, i, lang) ==
    LET hits == {k \in i..Len(t) : FenceAt(t, k, lang)} IN
    IF hits = {} THEN SubSeq(t, i, Len(t))
    ELSE LET m == CHOOSE k \in hits : \A h \in hits : k <= h IN
         SubSeq(t, i, m - 1)
         \o RemoveFences(t, SkipWs(t, m + (IF lang THEN 4 ELSE 3)), lang)

RECURSIVE Strip(_)
\* t.strip()
Strip(t) ==
    IF t = <<>> THEN t
    ELSE IF t[1] \in Whitespace THEN Strip(Tail(t))
    ELSE IF t[Len(t)] \in Whitespace THEN Strip(SubSeq(t, 1, Len(t) - 1))
    ELSE t

\* t.find(c) and t.rfind(c), 1-based, 0 when absent
Find(t, c) ==
    IF \E i \in 1..Len(t) : t[i] = c
    THEN CHOOSE i \in 1..Len(t) : t[i] = c /\ \A j \in 1..(i - 1) : t[j] # c
    ELSE 0
RFind(t, c) ==
    IF \E i \in 1..Len(t) : t[i] = c
    THEN CHOOSE i \in 1..Len(t) :
            t[i] = c /\ \A j \in (i + 1)..Len(t) : t[j] # c
    ELSE 0

\* re.search(r'\{[\s\S]*\}', t): the greedy span from the first "{" to the
\* last "}" after it
BraceMatch(t) ==
    LET a == Find(t, "{")
        b == RFind(t, "}")
    IN  IF a # 0 /\ b > a THEN [found |-> TRUE, span |-> SubSeq(t, a, b)]
        ELSE [found |-> FALSE]

\* the text extract_json decodes: fences removed, then stripped
Unfenced(t) == Strip(RemoveFences(RemoveFences(t, 1, TRUE), 1, FALSE))

\* extract_json(t): [val, how], how naming the attempt that produced val
extract_json(t) ==
    LET s == Unfenced(t)
        direct == Loads(s)
        m == BraceMatch(s)
        start == Find(s, "{")
        end == RFind(s, "}")
    IN  IF direct.ok THEN [val |-> direct.val, how |-> "direct"]
        ELSE IF m.found /\ Loads(m.span).ok
        THEN [val |-> Loads(m.span).val, how |-> "match"]
        ELSE IF start # 0 /\ end # 0 /\ Loads(SubSeq(s, start, end)).ok
        THEN [val |-> Loads(SubSeq(s, start, end)).val, how |-> "slice"]
        ELSE [val |-> DefaultJson, how |-> "default"]

-----------------------------------------------------------------------------
(* validate_and_fix_json: the operators its statements use *)

valid_rotations == <<0, 90, 180, 270>>

\* rotation % 360, in thousandths (Python's % takes the divisor's sign)
Normalized(rotation) == Thousandths(rotation) % (360 * Milli)

RECURSIVE MinBy(_, _, _)
\* min(xs, key = |x - normalized|) scanning from position i with best so
\* far b: a later element wins only when strictly nearer
MinBy(normalized, i, b) ==
    IF i > Len(valid_rotations) THEN b
    ELSE IF Abs(valid_rotations[i] * Milli - normalized)
            < Abs(b * Milli - normalized)
         THEN MinBy(normalized, i + 1, valid_rotations[i])
         ELSE MinBy(normalized, i + 1, b)

RECURSIVE MinByLast(_, _, _)
MinByLast(normalized, i, b) ==
    IF i > Len(valid_rotations) THEN b
    ELSE IF Abs(valid_rotations[i] * Milli - normalized)
            <= Abs(b * Milli - normalized)
         THEN MinByLast(normalized, i + 1, valid_rotations[i])
         ELSE MinByLast(normalized, i + 1, b)

ClosestTiesUp(normalized) == MinByLast(normalized, 2, valid_rotations[1])
\* closest = min(valid_rotations, key=lambda x: abs(x - normalized))
Closest(normalized) == MinBy(normalized, 2, valid_rotations[1])

\* not isinstance(rotation, int) or rotation not in [0, 90, 180, 270]
NeedsFix(rotation) ==
    \/ ~ IsInstanceInt(rotation)
    \/ ~ \E i \in 1..Len(valid_rotations) :
            PyEq(rotation, JInt(valid_rotations[i]))

\* whether abs(f_m * 1_000_000) is defined (else TypeError)
CanConvertFm(f_m) == IsInstanceIntFloat(f_m)

ConvertFmSigned(f_m) ==
    IF IsFlt(f_m) THEN JFlt(f_m.flt * 1000000)
    ELSE JInt((Thousandths(f_m) \div Milli) * 1000000)
\* abs(f_m * 1_000_000): an int stays an int, a float a float
ConvertFm(f_m) ==
    IF IsFlt(f_m) THEN JFlt(Abs(f_m.flt * 1000000))
    ELSE JInt(Abs((Thousandths(f_m) \div Milli) * 1000000))

IsLensAny(comp_type) == TRUE
\* comp_type == "lens"
IsLens(comp_type) == comp_type = JStr(<<"lens">>)

\* comp_type = component.get("type", "unknown")
CompType(component) == Get(component, <<"type">>, JStr(<<"unknown">>))

\* f"{comp_type}_{type_counters[comp_type]}"
ExpectedId(comp_type, count) == PyStr(comp_type) \o <<"_">> \o IntToStr(count)

Prepend(log, entry) == <<entry>> \o log
\* issues.append(entry)
AppendIssue(log, entry) == Append(log, entry)

\* whether a for loop can run over v (else TypeError)
Iterable(v) == IsList(v) \/ IsStr(v) \/ IsDict(v)

\* what a for loop over v visits: a list's elements, a str's characters,
\* a dict's keys
IterItems(v) ==
    IF IsList(v) THEN v.list
    ELSE IF IsStr(v) THEN [i \in 1..Len(v.str) |-> JStr(<<v.str[i]>>)]
    ELSE [i \in 1..Len(Keys(v)) |-> JStr(Keys(v)[i])]

\* json_data.get("components", [])
Components(jd) == Get(jd, <<"components">>, JList(<<>>))

\* the component the loop is at, and its params
Cur == IterItems(Components(json_data))[idx]
CurParams == Cur.obj[<<"params">>]

\* json_data after the component at position i became c (the loop holds a
\* reference into the list)
WithComponent(jd, i, c) ==
    JDict(Put(jd.obj, <<"components">>,
              JList([Components(jd).list EXCEPT ![i] = c])))

\* json_data after the current component's params became p
WithParams(p) ==
    WithComponent(json_data, idx, JDict(Put(Cur.obj, <<"params">>, p)))

-----------------------------------------------------------------------------
(* The statements of generate_json and validate_and_fix_json *)

\* an exception leaves the try block of generate_json; the re-run of
\* validate_and_fix_json alone has no handler around it
Raise(kind) ==
    /\ exc' = kind
    /\ pc' = IF round = "validate" THEN "raised" ELSE "except"

\* json_output = extract_json(response_content)
ExtractJson ==
    /\ pc = "extract_json"
    /\ json_output' = extract_json(text).val
    /\ json_data' = extract_json(text).val
    /\ issues' = <<>>
    /\ type_counters' = <<>>
    /\ idx' = 1
    /\ pc' = "check_laser"
    /\ UNCHANGED <<text, exc, result, round, first>>

\* if "laser" not in json_data: return None, [...]
CheckLaser ==
    /\ pc = "check_laser"
    /\ IF ~ SupportsIn(json_data)
       THEN Raise("TypeError") /\ UNCHANGED issues
       ELSE IF ~ Contains(json_data, <<"laser">>)
       THEN /\ issues' = <<[msg |-> "Missing 'laser' root object"]>>
            /\ pc' = "invalid"
            /\ UNCHANGED exc
       ELSE pc' = "check_components" /\ UNCHANGED <<issues, exc>>
    /\ UNCHANGED <<text, json_output, json_data, type_counters, idx, result,
                   round, first>>

\* if "components" not in json_data: json_data["components"] = []
CheckComponents ==
    /\ pc = "check_components"
    /\ IF Contains(json_data, <<"components">>)
       THEN pc' = "for" /\ UNCHANGED <<json_data, issues, exc>>
       ELSE IF ~ IsDict(json_data)
       THEN Raise("TypeError") /\ UNCHANGED <<json_data, issues>>
       ELSE /\ json_data' = JDict(Put(json_data.obj, <<"components">>,
                                      JList(<<>>)))
            /\ issues' = AppendIssue(issues,
                            [msg |-> "Added missing 'components' array"])
            /\ pc' = "for"
            /\ UNCHANGED exc
    /\ UNCHANGED <<text, json_output, type_counters, idx, result, round,
                   first>>

\* for component in json_data.get("components", []):
ForComponent ==
    /\ pc = "for"
    /\ IF ~ IsDict(json_data) THEN Raise("AttributeError")
       ELSE IF ~ Iterable(Components(json_data)) THEN Raise("TypeError")
       ELSE IF idx > Len(IterItems(Components(json_data)))
       THEN pc' = "return" /\ UNCHANGED exc
       ELSE pc' = "fix_id" /\ UNCHANGED exc
    /\ UNCHANGED <<text, json_output, json_data, issues, type_counters, idx,
                   result, round, first>>

\* comp_type, the counter, expected_id and the id repair
FixId ==
    /\ pc = "fix_id"
    /\ IF ~ IsDict(Cur)
       THEN /\ Raise("AttributeError")
            /\ UNCHANGED <<json_data, issues, type_counters>>
       ELSE IF ~ Hashable(CompType(Cur))
       THEN /\ Raise("TypeError")
            /\ UNCHANGED <<json_data, issues, type_counters>>
       ELSE LET comp_type == CompType(Cur)
                key == HashKey(comp_type)
                count == IF key \in DOMAIN type_counters
                         THEN type_counters[key] + 1 ELSE 1
                expected_id == JStr(ExpectedId(comp_type, count))
                old_id == Get(Cur, <<"id">>, JStr(<<"none">>))
            IN  /\ type_counters' = Put(type_counters, key, count)
                /\ IF Get(Cur, <<"id">>, None) # expected_id
                   THEN /\ json_data' =
                              WithComponent(json_data, idx,
                                  JDict(Put(Cur.obj, <<"id">>, expected_id)))
                        /\ issues' = AppendIssue(issues,
                                        [msg |-> "Fixed ID", old |-> old_id,
                                         new |-> expected_id.str])
                   ELSE UNCHANGED <<json_data, issues>>
                /\ pc' = "remove_alpha_deg"
                /\ UNCHANGED exc
    /\ UNCHANGED <<text, json_output, idx, result, round, first>>

\* if "params" in component: if "alpha_deg" in component["params"]: del ...
RemoveAlphaDeg ==
    /\ pc = "remove_alpha_deg"
    /\ IF <<"params">> \notin DOMAIN Cur.obj
       THEN /\ idx' = idx + 1
            /\ pc' = "for"
            /\ UNCHANGED <<json_data, issues, exc>>
       ELSE IF ~ SupportsIn(CurParams)
       THEN Raise("TypeError") /\ UNCHANGED <<json_data, issues, idx>>
       ELSE IF ~ Contains(CurParams, <<"alpha_deg">>)
       THEN pc' = "fix_rotation" /\ UNCHANGED <<json_data, issues, idx, exc>>
       ELSE IF ~ IsDict(CurParams)
       THEN Raise("TypeError") /\ UNCHANGED <<json_data, issues, idx>>
       ELSE /\ json_data' =
                  WithParams(JDict(Del(CurParams.obj, <<"alpha_deg">>)))
            /\ issues' = AppendIssue(issues,
                            [msg |-> "Removed alpha_deg",
                             id |-> Cur.obj[<<"id">>].str])
            /\ pc' = "fix_rotation"
            /\ UNCHANGED <<idx, exc>>
    /\ UNCHANGED <<text, json_output, type_counters, result, round, first>>

\* if "component_rotated" in component["params"]: snap it
FixRotation ==
    /\ pc = "fix_rotation"
    /\ IF ~ Contains(CurParams, <<"component_rotated">>)
       THEN pc' = "fix_lens_f_m" /\ UNCHANGED <<json_data, issues, exc>>
       ELSE IF ~ IsDict(CurParams)
       THEN Raise("TypeError") /\ UNCHANGED <<json_data, issues>>
       ELSE LET rotation == CurParams.obj[<<"component_rotated">>] IN
            /\ IF NeedsFix(rotation) /\ IsInstanceIntFloat(rotation)
               THEN LET closest == Closest(Normalized(rotation)) IN
                    /\ json_data' =
                          WithParams(JDict(Put(CurParams.obj,
                                               <<"component_rotated">>,
                                               JInt(closest))))
                    /\ issues' = AppendIssue(issues,
                                    [msg |-> "Fixed rotation",
                                     id |-> Cur.obj[<<"id">>].str,
                                     old |-> rotation, new |-> closest])
               ELSE UNCHANGED <<json_data, issues>>
            /\ pc' = "fix_lens_f_m"
            /\ UNCHANGED exc
    /\ UNCHANGED <<text, json_output, type_counters, idx, result, round,
                   first>>

\* if comp_type == "lens": if "f_m" in component["params"]: convert
FixLensFm ==
    /\ pc = "fix_lens_f_m"
    /\ IF ~ IsLens(CompType(Cur))
       THEN /\ idx' = idx + 1
            /\ pc' = "for"
            /\ UNCHANGED <<json_data, issues, exc>>
       ELSE IF ~ Contains(CurParams, <<"f_m">>)
       THEN pc' = "fix_lens_type" /\ UNCHANGED <<json_data, issues, idx, exc>>
       ELSE IF ~ IsDict(CurParams) \/ ~ CanConvertFm(CurParams.obj[<<"f_m">>])
       THEN Raise("TypeError") /\ UNCHANGED <<json_data, issues, idx>>
       ELSE LET f_m == CurParams.obj[<<"f_m">>] IN
            /\ json_data' =
                  WithParams(JDict(Del(Put(CurParams.obj, <<"f_um">>,
                                           ConvertFm(f_m)),
                                       <<"f_m">>)))
            /\ issues' = AppendIssue(issues,
                            [msg |-> "Converted f_m to f_um",
                             id |-> Cur.obj[<<"id">>].str])
            /\ pc' = "fix_lens_type"
            /\ UNCHANGED <<idx, exc>>
    /\ UNCHANGED <<text, json_output, type_counters, result, round, first>>

\* if "type" in params and "lensType" not in params: rename
FixLensType ==
    /\ pc = "fix_lens_type"
    /\ IF ~ (/\ Contains(CurParams, <<"type">>)
             /\ ~ Contains(CurParams, <<"lensType">>))
       THEN /\ idx' = idx + 1
            /\ pc' = "for"
            /\ UNCHANGED <<json_data, issues, exc>>
       ELSE IF ~ IsDict(CurParams)
       THEN Raise("TypeError") /\ UNCHANGED <<json_data, issues, idx>>
       ELSE /\ json_data' =
                  WithParams(JDict(Del(Put(CurParams.obj, <<"lensType">>,
                                           CurParams.obj[<<"type">>]),
                                       <<"type">>)))
            /\ issues' = AppendIssue(issues,
                            [msg |-> "Renamed 'type' to 'lensType'",
                             id |-> Cur.obj[<<"id">>].str])
            /\ idx' = idx + 1
            /\ pc' = "for"
            /\ UNCHANGED exc
    /\ UNCHANGED <<text, json_output, type_counters, result, round, first>>

\* return json_data, issues; generate_json returns them as they are
\* (save_json, which writes the document to a file in between, is the
\* caller's persistence and is left out)
ReturnFixed ==
    /\ pc = "return"
    /\ result' = [json |-> json_data, issues |-> issues, how |-> "fixed"]
    /\ pc' = "done"
    /\ UNCHANGED <<text, json_output, json_data, issues, type_counters, idx,
                   exc, round, first>>

\* if fixed_json is None: the default document and one issue (the re-run of
\* validate_and_fix_json alone returns None and its own issue)
ValidationFailed ==
    /\ pc = "invalid"
    /\ result' =
          IF round = "validate"
          THEN [json |-> None, issues |-> issues, how |-> "invalid"]
          ELSE [json |-> DefaultJson,
                issues |-> <<[msg |->
                    "Created default JSON due to validation errors"]>>,
                how |-> "invalid"]
    /\ pc' = "done"
    /\ UNCHANGED <<text, json_output, json_data, issues, type_counters, idx,
                   exc, round, first>>

\* except Exception as e: the default document and one issue
HandleException ==
    /\ pc = "except"
    /\ result' = [json |-> DefaultJson,
                  issues |-> <<[msg |-> "Error occurred", error |-> exc]>>,
                  how |-> "error"]
    /\ exc' = ""
    /\ pc' = "done"
    /\ UNCHANGED <<text, json_output, json_data, issues, type_counters, idx,
                   round, first>>

\* validate_and_fix_json called again, on the document the first run returned
Revalidate ==
    /\ pc = "done"
    /\ round = "first"
    /\ first' = result
    /\ round' = "validate"
    /\ json_output' = result.json
    /\ json_data' = result.json
    /\ issues' = <<>>
    /\ type_counters' = <<>>
    /\ idx' = 1
    /\ pc' = "check_laser"
    /\ UNCHANGED <<text, exc, result>>

\* the whole pipeline run again, on json.dumps of the document the first run
\* returned
Reprocess ==
    /\ pc = "done"
    /\ round = "first"
    /\ first' = result
    /\ round' = "process"
    /\ text' = Dumps(result.json)
    /\ pc' = "extract_json"
    /\ UNCHANGED <<json_output, json_data, issues, type_counters, idx, exc,
                   result>>

-----------------------------------------------------------------------------
(* The texts the generator may reply with *)

\* the longest components list the enumerated documents hold
MaxComps == 2

RECURSIVE MkDict(_)
\* the dict of a sequence of <<key atom, value>> pairs
MkDict(pairs) ==
    IF pairs = <<>> THEN <<>>
    ELSE Put(MkDict(Tail(pairs)), <<Head(pairs)[1]>>, Head(pairs)[2])
Obj(pairs) == JDict(MkDict(pairs))
Word(a) == JStr(<<a>>)

Position == Obj(<<<<"x", JInt(100)>>, <<"y", JInt(260)>>>>)
Laser == Obj(<<<<"id", Word("laser")>>,
               <<"params", Obj(<<<<"P", JFlt(1500)>>>>)>>>>)

\* component_rotated values: members, ties, negatives, floats, non-numbers
Rotations ==
    {JInt(0), JInt(90), JInt(180), JInt(270), JInt(45), JInt(47), JInt(135),
     JInt(225), JInt(315), JInt(359), JInt(360), JInt(450), JInt(-45),
     JInt(-90), JFlt(90000), JFlt(0), JFlt(47500), JFlt(44500), JFlt(-500),
     JFlt(225000), JBool(TRUE), JBool(FALSE), JStr(<<"4", "5">>), None,
     JList(<<JInt(90)>>)}

\* some pairs, or none
Opt(pairsSet) == {<<>>} \cup {<<q>> : q \in pairsSet}

\* params that combine the keys the rules target with one they do not
MixedParams ==
    { Obj(<<<<"R", JFlt(500)>>>> \o a \o r \o f \o u \o t \o l) :
        a \in Opt({<<"alpha_deg", JFlt(12500)>>}),
        r \in Opt({<<"component_rotated", JInt(45)>>,
                   <<"component_rotated", JInt(90)>>}),
        f \in Opt({<<"f_m", JFlt(-2)>>}),
        u \in Opt({<<"f_um", JInt(7)>>}),
        t \in Opt({<<"type", Word("convex")>>}),
        l \in Opt({<<"lensType", Word("concave")>>}) }

\* params with one matter each
PlainParams ==
    { Obj(<<<<"component_rotated", r>>>>) : r \in Rotations }
    \cup { Obj(<<<<"f_m", f>>>>) :
             f \in {JInt(2), JInt(-3), JFlt(50), JBool(TRUE),
                    JStr(<<"a">>), None, JList(<<>>)} }
    \cup { Obj(<<<<"debugAlpha", JInt(1)>>>>),
           Obj(<<<<"readings", JList(<<>>)>>, <<"totalPower", JFlt(900)>>,
                 <<"alpha_deg", JInt(3)>>>>),
           Obj(<<>>) }

\* params that are no dict
OddParams ==
    {JList(<<>>), JList(<<Word("alpha_deg")>>),
     JList(<<Word("component_rotated")>>), JList(<<Word("f_m")>>),
     JList(<<Word("type")>>), JStr(<<>>), Word("alpha_deg"),
     Word("component_rotated"), Word("f_m"), Word("type"), JInt(5), None}

AllParams == MixedParams \cup PlainParams \cup OddParams

\* one component of each type with each params, no id yet
ParamComps ==
    { Obj(<<<<"type", ty>>, <<"params", p>>, <<"position", Position>>>>) :
        ty \in {Word("lens"), Word("mirror")}, p \in AllParams }

Id(a, n) == JStr(<<a, "_", n>>)

\* components that differ in type and id: ids missing, right, wrong, shared;
\* types missing, "unknown", not a str
IdComps ==
    { Obj(<<<<"type", Word("A")>>, <<"id", Id("A", "9")>>,
            <<"position", Position>>>>),
      Obj(<<<<"type", Word("A")>>, <<"id", Id("A", "1")>>>>),
      Obj(<<<<"type", Word("B")>>, <<"id", Id("A", "1")>>>>),
      Obj(<<<<"id", Id("unknown", "1")>>>>),
      Obj(<<<<"type", Word("unknown")>>, <<"id", JInt(7)>>>>),
      Obj(<<<<"type", JInt(1)>>>>),
      Obj(<<<<"type", Word("1")>>>>),
      Obj(<<<<"type", None>>>>),
      Obj(<<<<"type", JBool(TRUE)>>>>),
      Obj(<<<<"type", JFlt(1000)>>>>),
      Obj(<<<<"type", Word("lens")>>, <<"id", Id("lens", "2")>>,
            <<"params", Obj(<<<<"alpha_deg", JInt(1)>>,
                              <<"component_rotated", JInt(135)>>,
                              <<"f_m", JFlt(-2)>>,
                              <<"type", Word("convex")>>>>)>>>>),
      Obj(<<<<"type", Word("mirror")>>,
            <<"params", Obj(<<<<"alpha_deg", JInt(1)>>,
                              <<"component_rotated", JInt(47)>>,
                              <<"f_m", JFlt(-2)>>,
                              <<"type", Word("flat")>>>>)>>>>) }

\* every sequence over S of length at most n
SeqsUpTo(S, n) == UNION { [1..k -> S] : k \in 0..n }

\* the scenario of three ids out of order: A_9, A_3, B_77
Scenario3 ==
    <<Obj(<<<<"type", Word("A")>>, <<"id", Id("A", "9")>>>>),
      Obj(<<<<"type", Word("A")>>, <<"id", Id("A", "3")>>>>),
      Obj(<<<<"type", Word("B")>>, <<"id", JStr(<<"B", "_", "7", "7">>)>>>>)>>

Doc(laser, components) ==
    Obj(<<<<"laser", laser>>, <<"components", JList(components)>>>>)

\* documents of the expected shape
ShapedDocs ==
    { Doc(Laser, <<c>>) : c \in ParamComps }
    \cup { Doc(Laser, cs) : cs \in SeqsUpTo(IdComps, MaxComps) }
    \cup { Doc(Laser, Scenario3) }

Fence == <<Backtick, Backtick, Backtick>>

\* decoded values of any other shape
OddValues ==
    { JInt(5), None, JBool(TRUE), Word("laser"),
      JStr(<<"laser", " ", "components">>),
      JList(<<Word("laser")>>),
      JList(<<Word("laser"), Word("components")>>), JList(<<>>), Obj(<<>>),
      Obj(<<<<"components", JList(<<>>)>>>>),
      Obj(<<<<"laser", Laser>>>>),
      Obj(<<<<"laser", None>>>>),
      Obj(<<<<"laser", Obj(<<<<"id", JStr(Fence)>>>>)>>,
            <<"components", JList(<<>>)>>>>),
      Obj(<<<<"laser", Obj(<<<<"id", JStr(Fence \o <<"json", " ", "x">>)>>>>)>>>>),
      Obj(<<<<"laser", JInt(1)>>,
            <<"components", JList(<<Obj(<<<<"type", JStr(Fence)>>,
                                          <<"id", JStr(Fence \o <<"_", "1">>)>>>>)>>)>>>>) }
    \cup { Obj(<<<<"laser", Laser>>, <<"components", c>>>>) :
             c \in {Obj(<<>>), JStr(<<>>), None, JInt(5), Word("laser"),
                    Obj(<<<<"a", Obj(<<>>)>>>>), JList(<<JInt(5)>>),
                    JList(<<JList(<<>>)>>), JList(<<None>>),
                    JList(<<Obj(<<<<"type", JList(<<>>)>>>>)>>),
                    JList(<<Obj(<<<<"type", Obj(<<>>)>>>>)>>)} }

\* a str of a JSON text with its backticks escaped, as a generator must
\* write them for the text to survive the fence removal
Escaped(t) ==
    [i \in 1..Len(t) |-> IF t[i] = Backtick THEN EscBacktick ELSE t[i]]

\* ways a reply wraps its JSON text
Wrappings(t) ==
    { t,
      Fence \o <<"json", "\n">> \o t \o <<"\n">> \o Fence,
      Fence \o <<"\n">> \o t \o <<"\n">> \o Fence \o <<"\n">>,
      <<"Here", " ", "is", ":", " ">> \o t \o <<" ", "done", ".">>,
      <<"Sure", "\n">> \o Fence \o <<"json", "\n">> \o t,
      Fence \o <<"json", "\n">> \o SubSeq(t, 1, Len(t) - 1),
      SubSeq(t, 1, Len(t) - 1),
      <<"{", "see", "}", " ">> \o t,
      t \o <<" ", "{", "}">>,
      <<" ", "\n">> \o t \o <<"\n">> }

\* documents that are sent in every wrapping
WrappedDocs ==
    { Doc(Laser, <<>>), Doc(Laser, Scenario3),
      Obj(<<<<"laser", Laser>>>>), Obj(<<<<"components", JList(<<>>)>>>>),
      JInt(5), JList(<<Word("laser")>>) }

\* replies that hold no JSON at all, or broken JSON
Garbage ==
    { <<>>, <<" ">>, <<"hello", " ", "world">>, <<"}", " ", "{">>,
      <<"{", "hello", "}">>, <<"{">>, <<"}">>, Fence, Fence \o <<"json">>,
      <<"{", Quote, "laser", Quote, ":", "1", ",", "}">>,
      <<"{", Quote, "laser", Quote, ":", "1", ".", "}">>,
      <<"{", Quote, "laser", ":", "1", "}">>,
      <<"[", "1", ",", "2">>, <<"-">>, <<"0", "1">>, <<"1", ".">>,
      <<"{", Quote, "laser", Quote, ":", "1", "}", "{", "}">> }

Replies ==
    { Escaped(Dumps(d)) : d \in ShapedDocs \cup OddValues }
    \cup UNION { Wrappings(Dumps(d)) : d \in WrappedDocs }
    \cup Garbage

-----------------------------------------------------------------------------
(* The specification *)

NoResult == [json |-> None, issues |-> <<>>, how |-> "none"]

Init ==
    /\ text \in Replies
    /\ json_output = None
    /\ json_data = None
    /\ issues = <<>>
    /\ type_counters = <<>>
    /\ idx = 1
    /\ pc = "extract_json"
    /\ exc = ""
    /\ result = NoResult
    /\ round = "first"
    /\ first = NoResult

Next ==
    \/ ExtractJson
    \/ CheckLaser
    \/ CheckComponents
    \/ ForComponent
    \/ FixId
    \/ RemoveAlphaDeg
    \/ FixRotation
    \/ FixLensFm
    \/ FixLensType
    \/ ReturnFixed
    \/ ValidationFailed
    \/ HandleException
    \/ Revalidate
    \/ Reprocess

Spec == Init /\ [][Next]_vars

-----------------------------------------------------------------------------
(* What the claims speak of *)

\* generate_json has returned (either run of the whole pipeline)
PipelineDone == pc = "done" /\ round # "validate"
\* validate_and_fix_json returned a document (in any run)
Fixed == pc = "done" /\ result.how = "fixed"

\* the components of a document, when they are a list
HasList(doc) ==
    /\ IsDict(doc)
    /\ <<"components">> \in DOMAIN doc.obj
    /\ IsList(doc.obj[<<"components">>])
CompsOf(doc) == doc.obj[<<"components">>].list

HasDictParams(c) ==
    /\ IsDict(c)
    /\ <<"params">> \in DOMAIN c.obj
    /\ IsDict(c.obj[<<"params">>])
ParamsOf(c) == c.obj[<<"params">>].obj

Last(log) == log[Len(log)]
Permitted == {0, 90, 180, 270}
IsNumber(v) == IsInt(v) \/ IsFlt(v)

\* the permitted value nearest to v mod 360, the smaller one on a tie
Nearest(v) ==
    LET n == Thousandths(v) % (360 * Milli)
        d(x) == Abs(x * Milli - n)
    IN  CHOOSE x \in Permitted :
            \A y \in Permitted : d(x) < d(y) \/ (d(x) = d(y) /\ x <= y)

\* how many entries of log say msg about the component named id
Count(log, msg, id) ==
    Cardinality({k \in 1..Len(log) : log[k].msg = msg /\ log[k].id = id})

-----------------------------------------------------------------------------
(* C1  Totality.  Whatever the text, the pipeline returns a document that  *)
(* is a mapping holding the laser key and a components key whose value is  *)
(* a sequence of mappings; no error leaves it.                             *)
C1_Totality ==
    PipelineDone =>
        /\ HasList(result.json)
        /\ <<"laser">> \in DOMAIN result.json.obj
        /\ \A i \in 1..Len(CompsOf(result.json)) :
              IsDict(CompsOf(result.json)[i])

(* C2  Failure reporting.  When the text holds no JSON that decodes, or    *)
(* the decoded value lacks laser, or the repair raises, the pipeline       *)
(* returns the default document and a change log of exactly one entry.     *)
C2_FailureReporting ==
    ( /\ PipelineDone
      /\ \/ extract_json(text).how = "default"
         \/ result.how \in {"invalid", "error"} )
    => /\ result.json = DefaultJson
       /\ Len(result.issues) = 1

(* C3  Idempotence.  Running validate_and_fix_json again on the returned   *)
(* document D, or the whole pipeline on json.dumps(D), returns D and an    *)
(* empty change log.                                                       *)
C3_Idempotence ==
    /\ pc # "raised"
    /\ (pc = "done" /\ round \in {"validate", "process"})
       => /\ result.json = first.json
          /\ result.issues = <<>>

(* C4  Identifier invariant.  In a repaired document the components of     *)
(* each kind K carry the ids K_1, K_2, ... in document order, and no two   *)
(* components share an id.  (Two components are of one kind when Python    *)
(* holds their types equal.)                                               *)
C4_IdentifierInvariant ==
    (Fixed /\ HasList(result.json)) =>
        LET cs == CompsOf(result.json)
            kind(i) == CompType(cs[i])
            nth(i) == Cardinality({j \in 1..i : PyEq(kind(j), kind(i))})
        IN  /\ \A i \in 1..Len(cs) :
                  cs[i].obj[<<"id">>]
                      = JStr(PyStr(kind(i)) \o <<"_">> \o IntToStr(nth(i)))
            /\ \A i, j \in 1..Len(cs) :
                  i # j => cs[i].obj[<<"id">>] # cs[j].obj[<<"id">>]

(* C5  Enum closure.  In every document the pipeline returns, every        *)
(* component_rotated param is one of 0, 90, 180, 270.                      *)
C5_EnumClosure ==
    (PipelineDone /\ HasList(result.json)) =>
        \A i \in 1..Len(CompsOf(result.json)) :
            LET c == CompsOf(result.json)[i] IN
            (HasDictParams(c) /\ <<"component_rotated">> \in DOMAIN ParamsOf(c))
            => ParamsOf(c)[<<"component_rotated">>]
                   \in {JInt(x) : x \in Permitted}

(* C6  Preservation.  A repair leaves alone the laser (and every other     *)
(* top-level key), the number and order of the components, each            *)
(* component's type and position (every key but id and params), and every  *)
(* params key but alpha_deg, component_rotated and, for a lens only, f_m,  *)
(* f_um, type, lensType.                                                   *)
Targeted(c) ==
    {<<"alpha_deg">>, <<"component_rotated">>}
    \cup (IF CompType(c) = JStr(<<"lens">>)
          THEN {<<"f_m">>, <<"f_um">>, <<"type">>, <<"lensType">>} ELSE {})

SameBut(f, g, keys) ==
    /\ DOMAIN f \ keys = DOMAIN g \ keys
    /\ \A k \in DOMAIN f \ keys : f[k] = g[k]

C6_Preservation ==
    Fixed =>
        /\ IsDict(json_output)
        /\ SameBut(json_output.obj, result.json.obj, {<<"components">>})
        /\ <<"components">> \in DOMAIN json_output.obj
           => IF ~ HasList(json_output)
              THEN result.json = json_output
              ELSE LET old == CompsOf(json_output)
                       new == CompsOf(result.json)
                   IN  /\ Len(new) = Len(old)
                       /\ \A i \in 1..Len(old) :
                             /\ SameBut(old[i].obj, new[i].obj,
                                        {<<"id">>, <<"params">>})
                             /\ <<"params">> \in DOMAIN old[i].obj
                                => /\ <<"params">> \in DOMAIN new[i].obj
                                   /\ IF HasDictParams(old[i])
                                      THEN /\ HasDictParams(new[i])
                                           /\ SameBut(ParamsOf(old[i]),
                                                      ParamsOf(new[i]),
                                                      Targeted(old[i]))
                                      ELSE new[i].obj[<<"params">>]
                                               = old[i].obj[<<"params">>]

\* a repair changed something, and a component that is no lens kept its f_m
\* and type params
C6_Witness ==
    /\ Fixed
    /\ result.issues # <<>>
    /\ HasList(result.json)
    /\ \E i \in 1..Len(CompsOf(result.json)) :
          LET c == CompsOf(result.json)[i] IN
          /\ CompType(c) = JStr(<<"mirror">>)
          /\ HasDictParams(c)
          /\ {<<"f_m">>, <<"type">>, <<"R">>} \subseteq DOMAIN ParamsOf(c)

(* C7  Disallowed-field stripping.  After a repair no component's params   *)
(* holds alpha_deg, debugAlpha, readings or totalPower.                    *)
Blocklist == {<<"alpha_deg">>, <<"debugAlpha">>, <<"readings">>,
              <<"totalPower">>}

C7_Stripping ==
    (Fixed /\ HasList(result.json)) =>
        \A i \in 1..Len(CompsOf(result.json)) :
            HasDictParams(CompsOf(result.json)[i])
            => DOMAIN ParamsOf(CompsOf(result.json)[i]) \cap Blocklist = {}

(* C8  Enum snapping.  The rotation step, on a numeric component_rotated   *)
(* v: as claimed, a v whose value is not in {0, 90, 180, 270} is           *)
(* overwritten with the nearest permitted value to v mod 360 (the smaller  *)
(* on a tie) and one entry old -> new is logged; a v whose value is in the *)
(* set is left unchanged and logs nothing.                                 *)
RotationStep ==
    /\ pc = "fix_rotation"
    /\ pc' = "fix_lens_f_m"
    /\ IsDict(CurParams)
    /\ <<"component_rotated">> \in DOMAIN CurParams.obj
    /\ IsNumber(CurParams.obj[<<"component_rotated">>])

Snapped(v) ==
    /\ json_data' = WithParams(JDict(Put(CurParams.obj,
                                         <<"component_rotated">>,
                                         JInt(Nearest(v)))))
    /\ issues' = Append(issues, [msg |-> "Fixed rotation",
                                 id |-> Cur.obj[<<"id">>].str,
                                 old |-> v, new |-> Nearest(v)])

Untouched == json_data' = json_data /\ issues' = issues

C8_SnapAsClaimed ==
    [][RotationStep =>
         LET v == CurParams.obj[<<"component_rotated">>] IN
         IF \E x \in Permitted : Thousandths(v) = x * Milli
         THEN Untouched ELSE Snapped(v)]_vars

(* C8, amended.  Only an int that is in the set is left unchanged; every   *)
(* other numeric v, a float equal to a permitted value (90.0) included, is *)
(* overwritten with the nearest permitted int and logs one entry.          *)
C8_Snap ==
    [][RotationStep =>
         LET v == CurParams.obj[<<"component_rotated">>] IN
         IF IsInt(v) /\ v.int \in Permitted
         THEN Untouched ELSE Snapped(v)]_vars

\* the tie 45 was snapped to 0
C8_Witness ==
    /\ pc = "fix_lens_f_m"
    /\ issues # <<>>
    /\ Last(issues).msg = "Fixed rotation"
    /\ Last(issues).old = JInt(45)
    /\ Last(issues).new = 0
    /\ CurParams.obj[<<"component_rotated">>] = JInt(0)

(* C9  Lens migration.  After a repair, a lens whose params held a numeric *)
(* f_m holds no f_m and f_um = abs(f_m * 1_000_000), whatever f_um it had; *)
(* a lens that held type and no lensType holds lensType with that value    *)
(* and no type; a lens that held both keeps both; and each conversion and  *)
(* each rename is logged once.                                             *)
AbsMillion(v) ==
    IF IsFlt(v) THEN JFlt(Abs(v.flt) * 1000000)
    ELSE JInt(Abs(v.int) * 1000000)

C9_LensMigration ==
    (Fixed /\ HasList(json_output)) =>
        LET old == CompsOf(json_output)
            new == CompsOf(result.json)
            lens == {i \in 1..Len(old) :
                        /\ CompType(old[i]) = JStr(<<"lens">>)
                        /\ HasDictParams(old[i])}
            id(i) == new[i].obj[<<"id">>].str
        IN  /\ \A i \in lens :
                  LET p == ParamsOf(old[i])
                      q == ParamsOf(new[i])
                  IN  /\ (<<"f_m">> \in DOMAIN p /\ IsNumber(p[<<"f_m">>]))
                         => /\ <<"f_m">> \notin DOMAIN q
                            /\ q[<<"f_um">>] = AbsMillion(p[<<"f_m">>])
                      /\ (<<"type">> \in DOMAIN p
                             /\ <<"lensType">> \notin DOMAIN p)
                         => /\ <<"type">> \notin DOMAIN q
                            /\ q[<<"lensType">>] = p[<<"type">>]
                      /\ (<<"type">> \in DOMAIN p /\ <<"lensType">> \in DOMAIN p)
                         => /\ q[<<"type">>] = p[<<"type">>]
                            /\ q[<<"lensType">>] = p[<<"lensType">>]
            /\ \A i \in 1..Len(old) :
                  /\ Count(result.issues, "Converted f_m to f_um", id(i))
                     = Cardinality({j \in lens :
                          id(j) = id(i) /\ <<"f_m">> \in DOMAIN ParamsOf(old[j])})
                  /\ Count(result.issues, "Renamed 'type' to 'lensType'",
                           id(i))
                     = Cardinality({j \in lens :
                          /\ id(j) = id(i)
                          /\ <<"type">> \in DOMAIN ParamsOf(old[j])
                          /\ <<"lensType">> \notin DOMAIN ParamsOf(old[j])})

\* a lens that held f_m = -0.002 beside an f_um, and type without lensType
C9_Witness ==
    /\ Fixed
    /\ HasList(json_output)
    /\ \E i \in 1..Len(CompsOf(json_output)) :
          LET c == CompsOf(json_output)[i]
              d == CompsOf(result.json)[i]
          IN  /\ CompType(c) = JStr(<<"lens">>)
              /\ HasDictParams(c)
              /\ {<<"f_m">>, <<"f_um">>, <<"type">>} \subseteq DOMAIN ParamsOf(c)
              /\ <<"lensType">> \notin DOMAIN ParamsOf(c)
              /\ ParamsOf(c)[<<"f_m">>] = JFlt(-2)
              /\ ParamsOf(d)[<<"f_um">>] = JFlt(2000 * Milli)
              /\ ParamsOf(d)[<<"lensType">>] = ParamsOf(c)[<<"type">>]

(* C10  Rule and log ordering.  Every statement of validate_and_fix_json   *)
(* leaves the log as it is or appends one entry; the entry is the one of   *)
(* the rule that statement belongs to; the components entry is the first   *)
(* of the log; an entry of the stripping, snapping and migration rules     *)
(* names the component by the id the identifier rule gave it; and the      *)
(* rules run in the fixed order, component after component.                *)
Rank(p) ==
    CASE p = "check_laser" -> 1
      [] p = "check_components" -> 2
      [] p = "for" -> 3
      [] p = "fix_id" -> 4
      [] p = "remove_alpha_deg" -> 5
      [] p = "fix_rotation" -> 6
      [] p = "fix_lens_f_m" -> 7
      [] p = "fix_lens_type" -> 8
      [] OTHER -> 9

RuleMsg(p) ==
    CASE p = "check_laser" -> "Missing 'laser' root object"
      [] p = "check_components" -> "Added missing 'components' array"
      [] p = "fix_id" -> "Fixed ID"
      [] p = "remove_alpha_deg" -> "Removed alpha_deg"
      [] p = "fix_rotation" -> "Fixed rotation"
      [] p = "fix_lens_f_m" -> "Converted f_m to f_um"
      [] p = "fix_lens_type" -> "Renamed 'type' to 'lensType'"
      [] OTHER -> "none"

\* the id the identifier rule gives the component at position i of the
\* decoded document
RightId(i) ==
    LET cs == CompsOf(json_output)
        n == Cardinality({j \in 1..i :
                 HashKey(CompType(cs[j])) = HashKey(CompType(cs[i]))})
    IN  PyStr(CompType(cs[i])) \o <<"_">> \o IntToStr(n)

C10_RuleOrder ==
    [][Rank(pc) <= 8 =>
         /\ \/ issues' = issues
            \/ /\ Len(issues') = Len(issues) + 1
               /\ SubSeq(issues', 1, Len(issues)) = issues
               /\ Last(issues').msg = RuleMsg(pc)
               /\ Rank(pc) = 2 => issues = <<>>
               /\ Rank(pc) = 4 => Last(issues').new = RightId(idx)
               /\ Rank(pc) >= 5 =>
                     /\ Last(issues').id = RightId(idx)
                     /\ Last(issues').id
                           = CompsOf(json_data')[idx].obj[<<"id">>].str
         /\ \/ idx' = idx /\ Rank(pc') > Rank(pc)
            \/ idx' = idx + 1 /\ pc' = "for" /\ Rank(pc) >= 5]_vars

\* two components, the first with all five repairs logged before the three
\* of the second
C10_Witness ==
    /\ Fixed
    /\ Len(result.issues) = 8
    /\ [k \in 1..8 |-> result.issues[k].msg]
          = <<"Fixed ID", "Removed alpha_deg", "Fixed rotation",
              "Converted f_m to f_um", "Renamed 'type' to 'lensType'",
              "Fixed ID", "Removed alpha_deg", "Fixed rotation">>
    /\ result.issues[1].old = JStr(<<"lens", "_", "2">>)
    /\ result.issues[2].id = <<"lens", "_", "1">>

=============================================================================
